---- MODULE Spec2Model ----
(***************************************************************************)
(* A model of music_collection_processor.py: the text normaliser           *)
(* (clean_text), the keyword extractor (generate_keywords), the column     *)
(* detector (detect_columns), the link builder (generate_search_links),    *)
(* the record pipeline (process_dataframe) and the paginated report        *)
(* (generate_html_report, generate_page_html).                             *)
(*                                                                         *)
(* A Python str is a sequence of one-character strings, so that the        *)
(* regular expressions, split(), title() and quote_plus() are computed     *)
(* character by character.  A Python value that may not be a str (a cell   *)
(* of the table, an optional argument) is a record [kind, s, n].           *)
(***************************************************************************)
EXTENDS Integers, Sequences, FiniteSets, TLC

(***************************************************************************)
(* Python values                                                           *)
(***************************************************************************)
None == [kind |-> "none", s |-> <<>>, n |-> 0]
NaN == [kind |-> "nan", s |-> <<>>, n |-> 0]
PyStr(chars) == [kind |-> "str", s |-> chars, n |-> 0]
PyInt(k) == [kind |-> "int", s |-> <<>>, n |-> k]

\* pd.isna(v)
isna(v) == v.kind \in {"none", "nan"}

\* bool(v): None, "" and 0 are falsy; NaN is a non-zero float, hence truthy
truthy(v) ==
    CASE v.kind = "none" -> FALSE
      [] v.kind = "nan" -> TRUE
      [] v.kind = "str" -> v.s # <<>>
      [] v.kind = "int" -> v.n # 0

Digits == <<"0", "1", "2", "3", "4", "5", "6", "7", "8", "9">>

RECURSIVE NatToStr(_)
NatToStr(k) ==
    IF k < 10 THEN <<Digits[k + 1]>>
    ELSE NatToStr(k \div 10) \o <<Digits[(k % 10) + 1]>>

\* str(v)
str(v) ==
    CASE v.kind = "str" -> v.s
      [] v.kind = "int" -> IF v.n < 0 THEN <<"-">> \o NatToStr(-v.n) ELSE NatToStr(v.n)
      [] v.kind = "nan" -> <<"n", "a", "n">>
      [] v.kind = "none" -> <<"N", "o", "n", "e">>

(***************************************************************************)
(* Characters                                                              *)
(***************************************************************************)
UpperLetters ==
    <<"A", "B", "C", "D", "E", "F", "G", "H", "I", "J", "K", "L", "M",
      "N", "O", "P", "Q", "R", "S", "T", "U", "V", "W", "X", "Y", "Z">>
LowerLetters ==
    <<"a", "b", "c", "d", "e", "f", "g", "h", "i", "j", "k", "l", "m",
      "n", "o", "p", "q", "r", "s", "t", "u", "v", "w", "x", "y", "z">>

Range(f) == {f[i] : i \in DOMAIN f}

NoRepeat(seq) == \A i, j \in DOMAIN seq : i # j => seq[i] # seq[j]

IndexOf(c, seq) == CHOOSE i \in DOMAIN seq : seq[i] = c

UpperSet == Range(UpperLetters)
LowerSet == Range(LowerLetters)
DigitSet == Range(Digits)

IsUpper(c) == c \in UpperSet
IsLower(c) == c \in LowerSet
IsLetter(c) == IsUpper(c) \/ IsLower(c)
IsDigit(c) == c \in DigitSet

\* the regular expression classes \w and \s
WordChars == UpperSet \cup LowerSet \cup DigitSet \cup {"_"}
SpaceChars == {" ", "\t", "\n", "\r"}

IsWordChar(c) == c \in WordChars
IsSpace(c) == c \in SpaceChars

LowerOf == [c \in UpperSet |-> LowerLetters[IndexOf(c, UpperLetters)]]
UpperOf == [c \in LowerSet |-> UpperLetters[IndexOf(c, LowerLetters)]]

lower_char(c) == IF IsUpper(c) THEN LowerOf[c] ELSE c
upper_char(c) == IF IsLower(c) THEN UpperOf[c] ELSE c

\* str.lower()
lower(s) == [i \in 1..Len(s) |-> lower_char(s[i])]

OpenBrackets == {"(", "[", "{"}
CloseBrackets == {")", "]", "}"}

(***************************************************************************)
(* clean_text                                                              *)
(***************************************************************************)
\* Where the match of [\(\[\{].*?[\)\]\}] that starts at the bracket s[i]
\* ends: the first closing bracket after i, unless a newline (which "." does
\* not match) comes first; 0 when there is no match at i.
MatchEnd(s, i) ==
    LET ends == {q \in (i + 1)..Len(s) :
                    /\ s[q] \in CloseBrackets
                    /\ \A k \in (i + 1)..(q - 1) : s[k] # "\n"}
    IN IF ends = {} THEN 0 ELSE CHOOSE q \in ends : \A r \in ends : q <= r

\* re.sub(r'[\(\[\{].*?[\)\]\}]', '', s), scanning from position i
RECURSIVE RemoveBracketedFrom(_, _)
RemoveBracketedFrom(s, i) ==
    IF i > Len(s) THEN <<>>
    ELSE IF s[i] \in OpenBrackets /\ MatchEnd(s, i) # 0
         THEN RemoveBracketedFrom(s, MatchEnd(s, i) + 1)
         ELSE <<s[i]>> \o RemoveBracketedFrom(s, i + 1)

RemoveBracketed(s) == RemoveBracketedFrom(s, 1)

\* re.sub(r'[^\w\s\-]', ' ', s)
ReplaceSpecial(s) ==
    [i \in 1..Len(s) |->
        IF IsWordChar(s[i]) \/ IsSpace(s[i]) \/ s[i] = "-" THEN s[i] ELSE " "]

\* re.sub(r'\s+', ' ', s): every maximal run of whitespace becomes one space
RECURSIVE CollapseFrom(_, _)
CollapseFrom(s, i) ==
    IF i > Len(s) THEN <<>>
    ELSE IF IsSpace(s[i])
         THEN IF i > 1 /\ IsSpace(s[i - 1])
              THEN CollapseFrom(s, i + 1)
              ELSE <<" ">> \o CollapseFrom(s, i + 1)
         ELSE <<s[i]>> \o CollapseFrom(s, i + 1)

CollapseSpaces(s) == CollapseFrom(s, 1)

\* str.strip(): the whitespace at both ends is dropped
RECURSIVE lstrip(_)
lstrip(s) == IF s # <<>> /\ IsSpace(s[1]) THEN lstrip(Tail(s)) ELSE s

RECURSIVE rstrip(_)
rstrip(s) ==
    IF s # <<>> /\ IsSpace(s[Len(s)]) THEN rstrip(SubSeq(s, 1, Len(s) - 1)) ELSE s

strip(s) == rstrip(lstrip(s))

\* The mutant of clean_text that collapses the whitespace before it replaces
\* the special characters instead of after.
clean_text_collapse_first(text) ==
    IF isna(text) \/ ~truthy(text) THEN <<>>
    ELSE ReplaceSpecial(strip(CollapseSpaces(RemoveBracketed(lower(str(text))))))

\* The mutant of clean_text that does not lowercase.
clean_text_no_lower(text) ==
    IF isna(text) \/ ~truthy(text) THEN <<>>
    ELSE strip(CollapseSpaces(ReplaceSpecial(RemoveBracketed(str(text)))))

\* CollectionProcessor.clean_text
\* The mutant of clean_text that returns '' for every value that is no string.
clean_text_strings_only(text) ==
    IF isna(text) \/ ~truthy(text) \/ text.kind # "str" THEN <<>>
    ELSE strip(CollapseSpaces(ReplaceSpecial(RemoveBracketed(lower(str(text))))))

clean_text(text) ==
    IF isna(text) \/ ~truthy(text) THEN <<>>
    ELSE strip(CollapseSpaces(ReplaceSpecial(RemoveBracketed(lower(str(text))))))

(***************************************************************************)
(* DEFAULT_CONFIG                                                          *)
(***************************************************************************)
DefaultStopwords ==
    <<
      <<"t", "h", "e">>,
      <<"a">>,
      <<"a", "n">>,
      <<"o", "f">>,
      <<"a", "n", "d">>,
      <<"i", "s">>,
      <<"a", "r", "e">>,
      <<"w", "a", "s">>,
      <<"w", "e", "r", "e">>,
      <<"a", "t">>,
      <<"o", "n">>,
      <<"i", "n">>,
      <<"t", "o">>,
      <<"f", "o", "r">>,
      <<"w", "i", "t", "h">>,
      <<"w", "i", "t", "h", "o", "u", "t">>,
      <<"h", "o", "w">>,
      <<"d", "o">>,
      <<"d", "o", "e", "s">>,
      <<"d", "i", "d">>,
      <<"i">>,
      <<"a", "m">>,
      <<"b", "e">>,
      <<"b", "y">>,
      <<"f", "r", "o", "m">>,
      <<"t", "h", "a", "t">>,
      <<"i", "t", "'", "s">>,
      <<"i", "t", "s">>,
      <<"y", "o", "u">>,
      <<"w", "e">>,
      <<"t", "h", "i", "s">>,
      <<"t", "h", "o", "s", "e">>,
      <<"t", "h", "e", "s", "e">>,
      <<"a", "s">>,
      <<"u", "p">>,
      <<"o", "u", "t">>,
      <<"o", "f", "f">>,
      <<"w", "i", "l", "l">>,
      <<"m", "y">>,
      <<"y", "o", "u", "r">>,
      <<"o", "u", "r">>,
      <<"n", "o", "t">>,
      <<"y", "e", "s">>,
      <<"n", "o">>,
      <<"v", "o", "l">>,
      <<"v", "o", "l", "u", "m", "e">>,
      <<"p", "a", "r", "t">>,
      <<"f", "e", "a", "t">>,
      <<"f", "e", "a", "t", "u", "r", "i", "n", "g">>,
      <<"o", "r", "i", "g", "i", "n", "a", "l">>,
      <<"s", "o", "u", "n", "d", "t", "r", "a", "c", "k">>,
      <<"o", "s", "t">>,
      <<"s", "i", "n", "g", "l", "e">>,
      <<"e", "p">>,
      <<"l", "p">>,
      <<"c", "d">>,
      <<"v", "i", "n", "y", "l">>,
      <<"r", "e", "m", "a", "s", "t", "e", "r">>,
      <<"r", "e", "m", "a", "s", "t", "e", "r", "e", "d">>,
      <<"d", "e", "l", "u", "x", "e">>,
      <<"e", "d", "i", "t", "i", "o", "n">>
    >>

DefaultMaxKeywords == 5

(***************************************************************************)
(* generate_keywords                                                       *)
(***************************************************************************)
\* str.split(): the maximal runs of non-whitespace characters, in order
RECURSIVE SplitFrom(_, _, _)
SplitFrom(s, i, word) ==
    IF i > Len(s) THEN (IF word = <<>> THEN <<>> ELSE <<word>>)
    ELSE IF IsSpace(s[i])
         THEN (IF word = <<>> THEN <<>> ELSE <<word>>) \o SplitFrom(s, i + 1, <<>>)
         ELSE SplitFrom(s, i + 1, Append(word, s[i]))

split(s) == SplitFrom(s, 1, <<>>)

\* ' '.join(words)
RECURSIVE join(_)
join(words) ==
    IF words = <<>> THEN <<>>
    ELSE IF Len(words) = 1 THEN words[1]
    ELSE words[1] \o <<" ">> \o join(Tail(words))

\* self.stopwords = set(word.lower() for word in self.config["stopwords"]),
\* of a processor constructed with the default stopword list
stopwords == {lower(DefaultStopwords[i]) : i \in DOMAIN DefaultStopwords}

\* The loops of lines 137-145: a word is kept when it is no stopword, is not
\* kept already and is longer than one character.
RECURSIVE FilterWordsFrom(_, _, _, _)
FilterWordsFrom(words, i, kept, stop) ==
    IF i > Len(words) THEN kept
    ELSE IF words[i] \notin stop /\ words[i] \notin Range(kept) /\ Len(words[i]) > 1
         THEN FilterWordsFrom(words, i + 1, Append(kept, words[i]), stop)
         ELSE FilterWordsFrom(words, i + 1, kept, stop)

FilterWords(words, stop) == FilterWordsFrom(words, 1, <<>>, stop)

VariousMarkers ==
    {<<"v", "a", "r", "i", "o", "u", "s">>,
     <<"v", "a">>,
     <<"c", "o", "m", "p", "i", "l", "a", "t", "i", "o", "n">>}

\* The mutant of IsVarious that looks at the first artist word only.
IsVariousFirstOnly(artist_words) ==
    artist_words # <<>> /\ artist_words[1] \in VariousMarkers

\* any(word in ["various", "va", "compilation"] for word in artist_words)
IsVarious(artist_words) ==
    \E i \in DOMAIN artist_words : artist_words[i] \in VariousMarkers

\* artist_words[:2]
FirstTwo(words) == SubSeq(words, 1, IF Len(words) < 2 THEN Len(words) ELSE 2)

\* The mutant of AddArtistWords that takes every artist word, not the first two.
RECURSIVE AddAllArtistWords(_, _, _, _)
AddAllArtistWords(words, i, combined, max_words) ==
    IF i > Len(words) THEN combined
    ELSE AddAllArtistWords(words, i + 1,
            IF Len(combined) < max_words THEN Append(combined, words[i]) ELSE combined,
            max_words)

\* for word in artist_words[:2]: if len(combined_words) < max_words: append
RECURSIVE AddArtistWords(_, _, _, _)
AddArtistWords(words, i, combined, max_words) ==
    IF i > Len(FirstTwo(words)) THEN combined
    ELSE AddArtistWords(words, i + 1,
            IF Len(combined) < max_words THEN Append(combined, words[i]) ELSE combined,
            max_words)

\* for word in title_words: break at the limit, append a word not yet there
RECURSIVE AddTitleWords(_, _, _, _)
AddTitleWords(words, i, combined, max_words) ==
    IF i > Len(words) \/ Len(combined) >= max_words THEN combined
    ELSE AddTitleWords(words, i + 1,
            IF words[i] \notin Range(combined) THEN Append(combined, words[i]) ELSE combined,
            max_words)

\* max_words or self.config["max_keywords"]
EffectiveMaxWords(max_words, config) ==
    IF truthy(max_words) THEN max_words.n ELSE config.max_keywords

\* CollectionProcessor.generate_keywords
generate_keywords(artist, title, max_words, config) ==
    LET limit == EffectiveMaxWords(max_words, config)
        filtered == FilterWords(split(clean_text(artist)), stopwords)
        title_words == FilterWords(split(clean_text(title)), stopwords)
        artist_words == IF IsVarious(filtered) THEN <<>> ELSE filtered
    IN join(AddTitleWords(title_words, 1,
                AddArtistWords(artist_words, 1, <<>>, limit), limit))

(***************************************************************************)
(* detect_columns                                                          *)
(***************************************************************************)
\* An optional column name: None, or a str (a column name is not taken
\* apart, so it is kept whole).
NoName == [kind |-> "none", name |-> ""]
Name(c) == [kind |-> "str", name |-> c]

\* bool(name): None and "" are falsy
named(n) == n.kind = "str" /\ n.name # ""

ArtistColumns == <<"Artist", "artist", "Artist Name", "artist_name">>
TitleColumns == <<"Title", "title", "Album", "album", "Release Title", "release_title">>

\* The mutant of FirstPresent that walks the columns of the table and
\* returns the first that is a candidate.
RECURSIVE FirstCandidateColumn(_, _, _)
FirstCandidateColumn(candidates, columns, i) ==
    IF i > Len(columns) THEN NoName
    ELSE IF columns[i] \in Range(candidates) THEN Name(columns[i])
    ELSE FirstCandidateColumn(candidates, columns, i + 1)

\* for col_name in candidates: if col_name in df.columns: return col_name
RECURSIVE FirstPresent(_, _, _)
FirstPresent(candidates, columns, i) ==
    IF i > Len(candidates) THEN NoName
    ELSE IF candidates[i] \in Range(columns) THEN Name(candidates[i])
    ELSE FirstPresent(candidates, columns, i + 1)

\* CollectionProcessor.detect_columns: (artist_col, title_col)
detect_columns(columns, config) ==
    <<FirstPresent(config.artist_columns, columns, 1),
      FirstPresent(config.title_columns, columns, 1)>>

(***************************************************************************)
(* generate_search_links                                                   *)
(***************************************************************************)
\* The printable ASCII characters, from code 32 on ("grave" stands for the
\* grave accent, code 96).
Ascii ==
    <<
      " ", "!", "\"", "#", "$", "%", "&", "'", "(", ")", "*", "+", ",", "-", ".", "/",
      "0", "1", "2", "3", "4", "5", "6", "7", "8", "9", ":", ";", "<", "=", ">", "?",
      "@", "A", "B", "C", "D", "E", "F", "G", "H", "I", "J", "K", "L", "M", "N", "O",
      "P", "Q", "R", "S", "T", "U", "V", "W", "X", "Y", "Z", "[", "\\", "]", "^", "_",
      "grave", "a", "b", "c", "d", "e", "f", "g", "h", "i", "j", "k", "l", "m", "n", "o",
      "p", "q", "r", "s", "t", "u", "v", "w", "x", "y", "z", "{", "|", "}", "~"
    >>

HexDigits == <<"0", "1", "2", "3", "4", "5", "6", "7", "8", "9", "A", "B", "C", "D", "E", "F">>

\* ord(c)
ord(c) ==
    CASE c = "\t" -> 9
      [] c = "\n" -> 10
      [] c = "\r" -> 13
      [] OTHER -> 31 + IndexOf(c, Ascii)

\* The characters urllib.parse.quote never escapes.
Unreserved == WordChars \cup {".", "-", "~"}

PercentEncoded(c) ==
    <<"%", HexDigits[(ord(c) \div 16) + 1], HexDigits[(ord(c) % 16) + 1]>>

\* The mutant of quote_plus that is urllib.parse.quote: a space becomes %20.
RECURSIVE quote(_)
quote(s) ==
    IF s = <<>> THEN <<>>
    ELSE (IF s[1] \in Unreserved THEN <<s[1]>> ELSE PercentEncoded(s[1])) \o quote(Tail(s))

\* urllib.parse.quote_plus(s): a space becomes "+", an unreserved character
\* stays and every other character becomes % and its code in hexadecimal
RECURSIVE quote_plus(_)
quote_plus(s) ==
    IF s = <<>> THEN <<>>
    ELSE (CASE s[1] = " " -> <<"+">>
            [] s[1] \in Unreserved -> <<s[1]>>
            [] OTHER -> PercentEncoded(s[1])) \o quote_plus(Tail(s))

\* A URL template as str.format reads it: literal text (kept whole) and the
\* replacement field {query}.
Literal(text) == [field |-> FALSE, text |-> text]
QueryField == [field |-> TRUE, text |-> "query"]

\* url_template.format(query=query): the literal text as it is and the query
\* in the place of every {query}; the URL is the sequence of the literal
\* texts and of the characters of the query.
RECURSIVE format(_, _)
format(template, query) ==
    IF template = <<>> THEN <<>>
    ELSE (IF template[1].field THEN query ELSE <<template[1].text>>)
            \o format(Tail(template), query)

wikipedia == <<"w", "i", "k", "i", "p", "e", "d", "i", "a">>
spotify == <<"s", "p", "o", "t", "i", "f", "y">>
youtube == <<"y", "o", "u", "t", "u", "b", "e">>
discogs == <<"d", "i", "s", "c", "o", "g", "s">>
allmusic == <<"a", "l", "l", "m", "u", "s", "i", "c">>
musicbrainz == <<"m", "u", "s", "i", "c", "b", "r", "a", "i", "n", "z">>

\* DEFAULT_CONFIG["search_engines"], as (engine, URL template) pairs
SearchEngines ==
    <<
      <<wikipedia,
        <<Literal("https://en.wikipedia.org/wiki/Special:Search?search="), QueryField>>>>,
      <<spotify,
        <<Literal("https://open.spotify.com/search/"), QueryField>>>>,
      <<youtube,
        <<Literal("https://www.youtube.com/results?search_query="), QueryField>>>>,
      <<discogs,
        <<Literal("https://www.discogs.com/search/?q="), QueryField>>>>,
      <<allmusic,
        <<Literal("https://www.allmusic.com/search/all/"), QueryField>>>>,
      <<musicbrainz,
        <<Literal("https://musicbrainz.org/search?query="), QueryField, Literal("&type=release")>>>>
    >>

DefaultSearchEngine == wikipedia

\* engine in self.config["search_engines"]
InRegistry(engine, config) ==
    \E i \in DOMAIN config.search_engines : config.search_engines[i][1] = engine

\* self.config["search_engines"][engine]
TemplateOf(engine, config) ==
    config.search_engines[CHOOSE i \in DOMAIN config.search_engines :
                              config.search_engines[i][1] = engine][2]

\* An optional list of engine ids: None or a list.
NoList == [kind |-> "none", items |-> <<>>]
List(items) == [kind |-> "list", items |-> items]

\* if not search_engines: search_engines = [self.config["default_search_engine"]]
RequestedEngines(search_engines, config) ==
    IF search_engines.kind = "none" \/ search_engines.items = <<>>
    THEN <<config.default_search_engine>>
    ELSE search_engines.items

\* The loop of lines 176-181 from engine i on: links is the dict built so
\* far, warnings the engines the logger was warned of.
RECURSIVE LinksFrom(_, _, _, _, _)
LinksFrom(engines, i, query, config, acc) ==
    IF i > Len(engines) THEN acc
    ELSE LET engine == engines[i]
         IN LinksFrom(engines, i + 1, query, config,
                IF InRegistry(engine, config)
                THEN [acc EXCEPT !.links =
                        [e \in DOMAIN acc.links \cup {engine} |->
                            IF e = engine THEN format(TemplateOf(engine, config), query)
                            ELSE acc.links[e]]]
                ELSE [acc EXCEPT !.warnings = Append(acc.warnings, engine)])

\* CollectionProcessor.generate_search_links: the dict it returns and the
\* warnings it logs
generate_search_links(keywords, search_engines, config) ==
    LinksFrom(RequestedEngines(search_engines, config), 1, quote_plus(keywords), config,
              [links |-> <<>>, warnings |-> <<>>])

(***************************************************************************)
(* process_dataframe                                                       *)
(***************************************************************************)
\* str.title(): a letter that starts the string or follows a non-letter is
\* made uppercase, every other letter lowercase
title(s) ==
    [i \in 1..Len(s) |->
        IF i = 1 \/ ~IsLetter(s[i - 1]) THEN upper_char(s[i]) ELSE lower_char(s[i])]

\* f'{engine.title()}_Link'
LinkColumn(engine) == title(engine) \o <<"_", "L", "i", "n", "k">>

\* A column that process_dataframe adds to the table: absent, or one value
\* for every record.
NoColumn == [present |-> FALSE, values |-> <<>>]
Column(values) == [present |-> TRUE, values |-> values]

\* `a or b` of two optional names
OrElse(a, b) == IF named(a) THEN a ELSE b

\* The mutant of ResolveColumns in which a detected column wins over the
\* name the caller gave.
ResolveColumnsDetectedFirst(artist_col, title_col, columns, config) ==
    LET detected == detect_columns(columns, config)
    IN <<OrElse(detected[1], artist_col), OrElse(detected[2], title_col)>>

\* Lines 189-192: the columns are detected when a name is missing, and a
\* detected column stands in for a missing name only.
ResolveColumns(artist_col, title_col, columns, config) ==
    IF ~named(artist_col) \/ ~named(title_col)
    THEN LET detected == detect_columns(columns, config)
         IN <<OrElse(artist_col, detected[1]), OrElse(title_col, detected[2])>>
    ELSE <<artist_col, title_col>>

CouldNotFind == "Could not find artist/title columns. Available columns: "
ArtistNotFound == "Artist column not found in data"
TitleNotFound == "Title column not found in data"

\* The mutant of SchemaError that misses the test of line 194.
SchemaErrorNotInOnly(artist_col, title_col, columns) ==
    CASE artist_col.name \notin Range(columns) -> <<ArtistNotFound>>
      [] title_col.name \notin Range(columns) -> <<TitleNotFound>>
      [] OTHER -> <<>>

\* Lines 194-200: the ValueError raised for the resolved names, << >> when
\* none is; the first message goes with the list of the columns.
SchemaError(artist_col, title_col, columns) ==
    CASE ~named(artist_col) \/ ~named(title_col) -> <<CouldNotFind, columns>>
      [] artist_col.name \notin Range(columns) -> <<ArtistNotFound>>
      [] title_col.name \notin Range(columns) -> <<TitleNotFound>>
      [] OTHER -> <<>>

\* The mutant of KeywordsOf that gives the records' keywords in reverse order.
KeywordsOfReversed(rows, artist_col, title_col, config) ==
    [r \in DOMAIN rows |->
        generate_keywords(rows[Len(rows) + 1 - r][artist_col.name],
                          rows[Len(rows) + 1 - r][title_col.name], None, config)]

\* Lines 207-210: generate_keywords of every record's two cells
KeywordsOf(rows, artist_col, title_col, config) ==
    [r \in DOMAIN rows |->
        generate_keywords(rows[r][artist_col.name], rows[r][title_col.name], None, config)]

\* Line 220 for one record:
\* self.generate_search_links(kw, [engine]).get(engine, '')
LinkOf(kw, engine, config) ==
    LET made == generate_search_links(kw, List(<<engine>>), config)
    IN IF engine \in DOMAIN made.links THEN made.links[engine] ELSE <<>>

\* The warnings line 220 logs over the records.
RECURSIVE WarningsOf(_, _, _)
WarningsOf(keywords, engine, config) ==
    IF keywords = <<>> THEN <<>>
    ELSE generate_search_links(keywords[1], List(<<engine>>), config).warnings
            \o WarningsOf(Tail(keywords), engine, config)

\* df[name] = values, on the link columns of the table
SetColumn(links, name, values) ==
    [c \in DOMAIN links \cup {name} |-> IF c = name THEN values ELSE links[c]]

(***************************************************************************)
(* generate_html_report and generate_page_html                             *)
(***************************************************************************)
\* The table a report is made of: the columns of the export (names and one
\* record of cells per row, as in process_dataframe) followed by the columns
\* process_dataframe added, in the order of df.columns, each a name and one
\* value per row.
AddedColumn(name, values) == [name |-> name, values |-> values]

KeywordsName == <<"K", "e", "y", "w", "o", "r", "d", "s">>
SearchLinkName == <<"S", "e", "a", "r", "c", "h", "_", "L", "i", "n", "k">>
LinkSuffix == <<"_", "L", "i", "n", "k">>

\* str.endswith
endswith(s, suffix) ==
    /\ Len(s) >= Len(suffix)
    /\ SubSeq(s, Len(s) - Len(suffix) + 1, Len(s)) = suffix

\* str.replace(old, new), old not empty: every occurrence from the left
RECURSIVE ReplaceFrom(_, _, _, _)
ReplaceFrom(s, i, old, new) ==
    IF i > Len(s) THEN <<>>
    ELSE IF i + Len(old) - 1 <= Len(s) /\ SubSeq(s, i, i + Len(old) - 1) = old
         THEN new \o ReplaceFrom(s, i + Len(old), old, new)
         ELSE <<s[i]>> \o ReplaceFrom(s, i + 1, old, new)

replace(s, old, new) == ReplaceFrom(s, 1, old, new)

\* f'{value}'
fstring(v) ==
    CASE v.kind = "none" -> <<"N", "o", "n", "e">>
      [] v.kind = "nan" -> <<"n", "a", "n">>
      [] OTHER -> str(v)

\* row.get(name, default) on the added columns
RECURSIVE RowGetFrom(_, _, _, _, _)
RowGetFrom(added, i, name, r, default) ==
    IF i > Len(added) THEN default
    ELSE IF added[i].name = name THEN added[i].values[r]
         ELSE RowGetFrom(added, i + 1, name, r, default)

\* Lines 426-430 for the row r, from the added column i on: a link for every
\* column whose name ends with _Link and whose value is there and not empty
RECURSIVE CardLinksFrom(_, _, _)
CardLinksFrom(added, i, r) ==
    IF i > Len(added) THEN <<>>
    ELSE LET value == added[i].values[r]
             shown == /\ endswith(added[i].name, LinkSuffix)
                      /\ ~isna(value)
                      /\ truthy(value)
         IN (IF shown
             THEN <<[engine_name |-> replace(added[i].name, LinkSuffix, <<>>),
                     href |-> fstring(value)]>>
             ELSE <<>>) \o CardLinksFrom(added, i + 1, r)

UnknownArtist == <<"Unknown Artist">>
UnknownTitle == <<"Unknown Title">>

\* Lines 412-435 for the row r: the album card
Card(table, r, artist_col, title_col) ==
    [artist |-> IF named(artist_col) THEN fstring(table.rows[r][artist_col.name])
                ELSE UnknownArtist,
     title |-> IF named(title_col) THEN fstring(table.rows[r][title_col.name])
               ELSE UnknownTitle,
     keywords |-> fstring(RowGetFrom(table.added, 1, KeywordsName, r, PyStr(<<>>))),
     links |-> CardLinksFrom(table.added, 1, r)]

\* df.iloc[start_idx:end_idx]: the rows of a page, by their place in the
\* table (the first row is row 1)
iloc(start_idx, end_idx) == [k \in 1..(end_idx - start_idx) |-> start_idx + k]

\* The NameError of line 407: output_path is a parameter of
\* generate_html_report and a local of main, no name of generate_page_html
\* and no global of the module.
NameError == <<"NameError", "output_path">>

\* Lines 397-408: the navigation of a page, when there is more than one
\* page; the link to every other page reads output_path.
Navigation(page_num, total_pages) ==
    IF total_pages > 1 /\ \E q \in 1..total_pages : q # page_num
    THEN [error |-> NameError, items |-> <<>>]
    ELSE [error |-> <<>>, items |-> IF total_pages > 1 THEN <<page_num>> ELSE <<>>]

NoPage == [page_num |-> 0, nav |-> <<>>, cards |-> <<>>]

\* generate_page_html of the rows index of the table: the page, or the
\* exception raised
generate_page_html(table, index, page_num, total_pages, config) ==
    LET artist_col == FirstPresent(config.artist_columns, table.columns, 1)
        title_col == FirstPresent(config.title_columns, table.columns, 1)
        nav == Navigation(page_num, total_pages)
    IN IF nav.error # <<>> THEN [error |-> nav.error, html |-> NoPage]
       ELSE [error |-> <<>>,
             html |-> [page_num |-> page_num,
                       nav |-> nav.items,
                       cards |-> [k \in DOMAIN index |->
                                    Card(table, index[k], artist_col, title_col)]]]

\* Line 240: total_pages = (total_items + items_per_page - 1) // items_per_page
TotalPages(total_items, items_per_page) ==
    (total_items + items_per_page - 1) \div items_per_page

\* Lines 254-257: the file name of the page with the loop index page
BaseName == "collection"
FileName(page, total_pages) ==
    IF total_pages = 1 THEN <<BaseName, ".html">>
    ELSE <<BaseName, "_page_", NatToStr(page + 1), ".html">>

\* open(filepath, 'w') and write: the file holds content, whatever it held
WriteFile(files, filename, content) ==
    [f \in DOMAIN files \cup {filename} |-> IF f = filename THEN content ELSE files[f]]

(***************************************************************************)
(* Bounds and inputs                                                       *)
(***************************************************************************)
MaxLen == 4

CleanAlphabet == {"a", "A", " ", "\n", "(", "]", "-", "!"}

RECURSIVE StringsUpTo(_, _)
StringsUpTo(alphabet, k) ==
    IF k = 0 THEN {<<>>}
    ELSE LET shorter == StringsUpTo(alphabet, k - 1)
         IN shorter \cup {Append(s, c) : s \in {t \in shorter : Len(t) = k - 1}, c \in alphabet}

SampleNumbers == {0, 7, 311}

CleanInputs ==
    {None, NaN} \cup {PyInt(k) : k \in SampleNumbers}
        \cup {PyStr(s) : s \in StringsUpTo(CleanAlphabet, MaxLen)}

\* The words a field of a record is written with: a compilation marker in
\* capitals, a stopword, a single letter and three ordinary words.
Vocabulary ==
    {<<"V", "A">>, <<"t", "h", "e">>, <<"x">>,
     <<"p", "i", "n", "k">>,
     <<"f", "l", "o", "y", "d">>,
     <<"m", "o", "o", "n">>}

\* The most words the artist and the title of one record have together.
MaxWords == 4

WordSeqs(k) == UNION {[1..n -> Vocabulary] : n \in 0..k}

\* The (artist, title) pairs of a record, as the values the table holds:
\* strings, a missing artist (NaN), and a number in one of the two cells.
FieldPairs ==
    {<<PyStr(join(p[1])), PyStr(join(p[2]))>> :
        p \in UNION {[1..n -> Vocabulary] \X WordSeqs(MaxWords - n) : n \in 0..MaxWords}}
    \cup {<<NaN, PyStr(join(t))>> : t \in WordSeqs(1)}
    \cup {<<PyInt(n), PyStr(join(t))>> : n \in SampleNumbers, t \in WordSeqs(1)}
    \cup {<<PyStr(join(a)), PyInt(n)>> : a \in WordSeqs(1), n \in SampleNumbers}

\* The max_words arguments: absent, negative, zero, and limits that cut the
\* artist words (1) and the title words (2).
MaxWordsArgs == {None} \cup {PyInt(k) : k \in {-1, 0, 1, 2}}

\* The max_keywords setting of the processor the extractor is called on:
\* the --max-keywords 3 of example_usage.py, which four words exceed.
KeywordSettings == {3}

DefaultConfig ==
    [max_keywords |-> DefaultMaxKeywords,
     artist_columns |-> ArtistColumns,
     title_columns |-> TitleColumns,
     search_engines |-> SearchEngines,
     default_search_engine |-> DefaultSearchEngine]

\* The column names of the tables: candidates of both roles in both cases,
\* and a column of neither role.
ColumnNames == {"Artist", "artist", "Title", "Album", "album", "Year"}

\* The most columns a table has.
MaxColumns == 3

\* The column lists of the tables: names in any order, none twice.
ColumnLists ==
    {c \in UNION {[1..n -> ColumnNames] : n \in 0..MaxColumns} : NoRepeat(c)}

\* The most characters of a keyword string handed to the link builder.
MaxQueryLen == 3

\* The characters of those strings: a letter, a space, reserved characters
\* and an unreserved one.
LinkAlphabet == {"a", " ", "&", "+", "-"}

AbbeyRoad == <<"a", "b", "b", "e", "y", " ", "r", "o", "a", "d">>

QueryStrings == StringsUpTo(LinkAlphabet, MaxQueryLen) \cup {AbbeyRoad}

\* Two engine ids that are not in the registry: one in another case than a
\* registered id, one of another name.
Wikipedia == <<"W", "i", "k", "i", "p", "e", "d", "i", "a">>
bing == <<"b", "i", "n", "g">>

RequestedIds == {wikipedia, musicbrainz, Wikipedia, bing}

\* The most engine ids of a requested list.
MaxEngines == 2

EngineLists ==
    {NoList} \cup {List(l) : l \in UNION {[1..n -> RequestedIds] : n \in 0..MaxEngines}}

\* The cells of the tables whose columns vary: two records, a different
\* value in every column.
FirstRecord ==
    [c \in ColumnNames |->
        CASE c = "Artist" -> PyStr(<<"Q", "u", "e", "e", "n">>)
          [] c = "artist" -> PyStr(<<"n", "i", "r", "v", "a", "n", "a">>)
          [] c = "Title" -> PyStr(<<"A", " ", "N", "i", "g", "h", "t">>)
          [] c = "Album" -> PyStr(<<"N", "e", "v", "e", "r", "m", "i", "n", "d">>)
          [] c = "album" -> PyStr(<<"o", "k", " ", "c", "o", "m", "p", "u", "t", "e", "r">>)
          [] c = "Year" -> PyInt(1975)]

SecondRecord ==
    [c \in ColumnNames |->
        CASE c = "Artist" -> PyStr(<<"T", "h", "e", " ", "B", "e", "a", "t", "l", "e", "s">>)
          [] c = "artist" -> NaN
          [] c = "Title" -> PyStr(<<"A", "b", "b", "e", "y", " ", "R", "o", "a", "d">>)
          [] c = "Album" -> PyStr(<<"R", "e", "v", "o", "l", "v", "e", "r">>)
          [] c = "album" -> PyStr(<<>>)
          [] c = "Year" -> PyInt(1969)]

Restrict(f, S) == [x \in S |-> f[x]]

TableOf(columns) ==
    [columns |-> columns,
     rows |-> <<Restrict(FirstRecord, Range(columns)), Restrict(SecondRecord, Range(columns))>>,
     Keywords |-> NoColumn,
     links |-> <<>>,
     Search_Link |-> NoColumn]

\* The column names a caller gives: none, the empty string, a column that
\* may be there, a column that never is.
ArtistArgs == {NoName, Name(""), Name("artist"), Name("Band")}
TitleArgs == {NoName, Name("Album"), Name("Name")}

\* The records of the tables whose engines vary.
SampleRecords ==
    {[Artist |-> PyStr(<<"Q", "u", "e", "e", "n">>), Title |-> PyStr(<<"A", " ", "N", "i", "g", "h", "t", " ", "a", "t", " ", "t", "h", "e", " ", "O", "p", "e", "r", "a">>)],
     [Artist |-> PyStr(<<"V", "a", "r", "i", "o", "u", "s", " ", "A", "r", "t", "i", "s", "t", "s">>), Title |-> PyStr(<<"O", "K", " ", "C", "o", "m", "p", "u", "t", "e", "r">>)],
     [Artist |-> NaN, Title |-> PyStr(<<"T", "h", "e">>)]}

\* The most records of a table.
MaxRecords == 2

RecordLists == UNION {[1..n -> SampleRecords] : n \in 1..MaxRecords}

\* The tables a report is made of: what process_dataframe makes of the
\* records for the engines wikipedia and bing, the second of which is not in
\* the registry and has a column of '' values.
ProcessedTable(rows) ==
    LET kws == KeywordsOf(rows, Name("Artist"), Name("Title"), DefaultConfig)
        links(engine) == [r \in DOMAIN kws |-> PyStr(LinkOf(kws[r], engine, DefaultConfig))]
    IN [columns |-> <<"Artist", "Title">>,
        rows |-> rows,
        added |-> <<AddedColumn(KeywordsName, [r \in DOMAIN kws |-> PyStr(kws[r])]),
                    AddedColumn(LinkColumn(wikipedia), links(wikipedia)),
                    AddedColumn(LinkColumn(bing), links(bing)),
                    AddedColumn(SearchLinkName, links(wikipedia))>>]

\* The most records of a report, and the largest page size.
MaxReportRecords == 3
MaxPageSize == 2

ReportTables ==
    {ProcessedTable(rows) : rows \in UNION {[1..n -> SampleRecords] : n \in 0..MaxReportRecords}}

\* The configuration of a processor whose max_keywords was set (main, lines
\* 513-514) to the call's setting.
ConfigOf(call) == [DefaultConfig EXCEPT !.max_keywords = call.max_keywords]

VARIABLES
    cleanCall,  \* a call of clean_text
    kwCall,     \* a call of generate_keywords
    colCall,    \* a call of detect_columns
    linkCall,   \* a call of generate_search_links
    df,         \* the table process_dataframe works on, changed in place
    call,       \* process_dataframe's arguments, locals and position
    warnings,   \* what the logger was warned of
    report      \* a call of generate_html_report: arguments, locals, files

vars == <<cleanCall, kwCall, colCall, linkCall, df, call, warnings, report>>

calls == <<cleanCall, kwCall, colCall, linkCall>>
pipeline == <<df, call, warnings>>

NoCleanCall == [pc |-> "none", text |-> None, out |-> <<>>, again |-> <<>>]
NoKwCall ==
    [pc |-> "none", artist |-> None, title |-> None, max_words |-> None,
     max_keywords |-> DefaultMaxKeywords, out |-> <<>>]

NoColCall == [pc |-> "none", columns |-> <<>>, artist_col |-> NoName, title_col |-> NoName]
NoLinkCall ==
    [pc |-> "none", keywords |-> <<>>, search_engines |-> NoList, links |-> <<>>]
NoTable == TableOf(<<>>)
NoCall ==
    [pc |-> "none", artist_arg |-> NoName, title_arg |-> NoName, engines_arg |-> NoList,
     artist_col |-> NoName, title_col |-> NoName, search_engines |-> <<>>, i |-> 0,
     error |-> <<>>]
NoReport ==
    [pc |-> "none", table |-> ProcessedTable(<<>>), items_per_page |-> 1,
     total_pages |-> 0, page |-> 0, files |-> <<>>, error |-> <<>>]
NoPipeline == df = NoTable /\ call = NoCall /\ warnings = <<>> /\ report = NoReport

(***************************************************************************)
(* The normaliser called on a value, and again on its own result           *)
(***************************************************************************)
CleanInit ==
    /\ cleanCall \in {[NoCleanCall EXCEPT !.pc = "call", !.text = v] : v \in CleanInputs}
    /\ kwCall = NoKwCall
    /\ colCall = NoColCall
    /\ linkCall = NoLinkCall
    /\ NoPipeline

CleanText ==
    /\ cleanCall.pc = "call"
    /\ cleanCall' = [cleanCall EXCEPT !.pc = "returned", !.out = clean_text(cleanCall.text)]
    /\ UNCHANGED <<kwCall, colCall, linkCall, pipeline, report>>

CleanAgain ==
    /\ cleanCall.pc = "returned"
    /\ cleanCall' = [cleanCall EXCEPT !.pc = "done", !.again = clean_text(PyStr(cleanCall.out))]
    /\ UNCHANGED <<kwCall, colCall, linkCall, pipeline, report>>

CleanNext == CleanText \/ CleanAgain

SpecClean == CleanInit /\ [][CleanNext]_vars

(***************************************************************************)
(* The keyword extractor called on one record                              *)
(***************************************************************************)
KeywordsInit ==
    /\ cleanCall = NoCleanCall
    /\ colCall = NoColCall
    /\ linkCall = NoLinkCall
    /\ NoPipeline
    /\ kwCall \in
        {[NoKwCall EXCEPT !.pc = "call", !.artist = p[1], !.title = p[2],
                          !.max_words = m, !.max_keywords = k] :
            p \in FieldPairs, m \in MaxWordsArgs, k \in KeywordSettings}

GenerateKeywords ==
    /\ kwCall.pc = "call"
    /\ kwCall' = [kwCall EXCEPT
                    !.pc = "done",
                    !.out = generate_keywords(kwCall.artist, kwCall.title,
                                              kwCall.max_words, ConfigOf(kwCall))]
    /\ UNCHANGED <<cleanCall, colCall, linkCall, pipeline, report>>

KeywordsNext == GenerateKeywords

SpecKeywords == KeywordsInit /\ [][KeywordsNext]_vars

(***************************************************************************)
(* The column detector called on a table                                   *)
(***************************************************************************)
ColumnsInit ==
    /\ cleanCall = NoCleanCall
    /\ kwCall = NoKwCall
    /\ linkCall = NoLinkCall
    /\ NoPipeline
    /\ colCall \in {[NoColCall EXCEPT !.pc = "call", !.columns = c] : c \in ColumnLists}

DetectColumns ==
    /\ colCall.pc = "call"
    /\ LET detected == detect_columns(colCall.columns, DefaultConfig)
       IN colCall' = [colCall EXCEPT !.pc = "done",
                                     !.artist_col = detected[1],
                                     !.title_col = detected[2]]
    /\ UNCHANGED <<cleanCall, kwCall, linkCall, pipeline, report>>

ColumnsNext == DetectColumns

SpecColumns == ColumnsInit /\ [][ColumnsNext]_vars

(***************************************************************************)
(* The link builder called on a keyword string                             *)
(***************************************************************************)
LinksInit ==
    /\ cleanCall = NoCleanCall
    /\ kwCall = NoKwCall
    /\ colCall = NoColCall
    /\ linkCall \in
        {[NoLinkCall EXCEPT !.pc = "call", !.keywords = k, !.search_engines = e] :
            k \in QueryStrings, e \in EngineLists}
    /\ NoPipeline

GenerateSearchLinks ==
    /\ linkCall.pc = "call"
    /\ LET made == generate_search_links(linkCall.keywords, linkCall.search_engines,
                                         DefaultConfig)
       IN /\ linkCall' = [linkCall EXCEPT !.pc = "done", !.links = made.links]
          /\ warnings' = warnings \o made.warnings
    /\ UNCHANGED <<cleanCall, kwCall, colCall, df, call, report>>

LinksNext == GenerateSearchLinks

SpecLinks == LinksInit /\ [][LinksNext]_vars

(***************************************************************************)
(* process_dataframe called on a table                                     *)
(***************************************************************************)
\* The calls in which the columns of the table and the names the caller
\* gives vary, and those in which the records and the engines vary.
Init ==
    /\ cleanCall = NoCleanCall
    /\ kwCall = NoKwCall
    /\ colCall = NoColCall
    /\ linkCall = NoLinkCall
    /\ warnings = <<>>
    /\ report = NoReport
    /\ \/ /\ df \in {TableOf(c) : c \in ColumnLists}
          /\ call \in {[NoCall EXCEPT !.pc = "resolve", !.artist_arg = a, !.title_arg = t] :
                          a \in ArtistArgs, t \in TitleArgs}
       \/ /\ df \in {[TableOf(<<"Artist", "Title">>) EXCEPT !.rows = r] : r \in RecordLists}
          /\ call \in {[NoCall EXCEPT !.pc = "resolve", !.engines_arg = e] : e \in EngineLists}

\* Lines 188-200: the columns are resolved, or a ValueError is raised
Resolve ==
    /\ call.pc = "resolve"
    /\ LET resolved == ResolveColumns(call.artist_arg, call.title_arg, df.columns, DefaultConfig)
           error == SchemaError(resolved[1], resolved[2], df.columns)
       IN call' = [call EXCEPT !.artist_col = resolved[1],
                               !.title_col = resolved[2],
                               !.error = error,
                               !.pc = IF error = <<>> THEN "keywords" ELSE "raised"]
    /\ UNCHANGED <<calls, report, df, warnings>>

\* Lines 205-214: the Keywords column, and the engines to make links for
AddKeywords ==
    /\ call.pc = "keywords"
    /\ df' = [df EXCEPT !.Keywords =
                Column(KeywordsOf(df.rows, call.artist_col, call.title_col, DefaultConfig))]
    /\ call' = [call EXCEPT !.search_engines = RequestedEngines(call.engines_arg, DefaultConfig),
                            !.i = 1,
                            !.pc = "links"]
    /\ UNCHANGED <<calls, report, warnings>>

\* Lines 218-221, once round the loop: the link column of one engine
AddLinkColumn ==
    /\ call.pc = "links"
    /\ call.i <= Len(call.search_engines)
    /\ LET engine == call.search_engines[call.i]
           kws == df.Keywords.values
       IN /\ df' = [df EXCEPT !.links =
                      SetColumn(df.links, LinkColumn(engine),
                                [r \in DOMAIN kws |-> LinkOf(kws[r], engine, DefaultConfig)])]
          /\ warnings' = warnings \o WarningsOf(kws, engine, DefaultConfig)
    /\ call' = [call EXCEPT !.i = call.i + 1]
    /\ UNCHANGED <<calls, report>>

\* Lines 224-227: the Search_Link column, and the return
AddSearchLink ==
    /\ call.pc = "links"
    /\ call.i > Len(call.search_engines)
    /\ df' = [df EXCEPT !.Search_Link = Column(df.links[LinkColumn(call.search_engines[1])])]
    /\ call' = [call EXCEPT !.pc = "done"]
    /\ UNCHANGED <<calls, report, warnings>>

Next == Resolve \/ AddKeywords \/ AddLinkColumn \/ AddSearchLink

Spec == Init /\ [][Next]_vars

(***************************************************************************)
(* generate_html_report called on a processed table                        *)
(***************************************************************************)
ReportInit ==
    /\ cleanCall = NoCleanCall
    /\ kwCall = NoKwCall
    /\ colCall = NoColCall
    /\ linkCall = NoLinkCall
    /\ df = NoTable
    /\ call = NoCall
    /\ warnings = <<>>
    /\ report \in {[NoReport EXCEPT !.pc = "call", !.table = t, !.items_per_page = n] :
                      t \in ReportTables, n \in 1..MaxPageSize}

\* Lines 236-246: the number of pages, before the loop
ReportStart ==
    /\ report.pc = "call"
    /\ report' = [report EXCEPT
                    !.total_pages = TotalPages(Len(report.table.rows), report.items_per_page),
                    !.page = 0,
                    !.pc = "loop"]
    /\ UNCHANGED <<calls, pipeline>>

\* Lines 248-267, once round the loop: the page is made and written, or
\* the exception of generate_page_html leaves the call
ReportWritePage ==
    /\ report.pc = "loop"
    /\ report.page < report.total_pages
    /\ LET total_items == Len(report.table.rows)
           start_idx == report.page * report.items_per_page
           end_idx == IF start_idx + report.items_per_page <= total_items
                      THEN start_idx + report.items_per_page ELSE total_items
           made == generate_page_html(report.table, iloc(start_idx, end_idx),
                                      report.page + 1, report.total_pages, DefaultConfig)
       IN report' =
            IF made.error # <<>>
            THEN [report EXCEPT !.pc = "raised", !.error = made.error]
            ELSE [report EXCEPT
                    !.files = WriteFile(report.files,
                                        FileName(report.page, report.total_pages), made.html),
                    !.page = report.page + 1]
    /\ UNCHANGED <<calls, pipeline>>

\* The loop is over: generate_html_report returns
ReportReturn ==
    /\ report.pc = "loop"
    /\ report.page >= report.total_pages
    /\ report' = [report EXCEPT !.pc = "done"]
    /\ UNCHANGED <<calls, pipeline>>

ReportNext == ReportStart \/ ReportWritePage \/ ReportReturn

SpecReport == ReportInit /\ [][ReportNext]_vars

(***************************************************************************)
(* Properties                                                              *)
(***************************************************************************)
Max(a, b) == IF a >= b THEN a ELSE b

\* The position of the first occurrence of w in seq.
FirstPos(w, seq) == CHOOSE i \in DOMAIN seq : seq[i] = w /\ \A j \in 1..(i - 1) : seq[j] # w

\* The words of seq at the positions from..to are words of field, in the
\* order of their first occurrences in field.
InFieldOrder(seq, from, to, field) ==
    /\ \A i \in from..to : seq[i] \in Range(field)
    /\ \A i, j \in from..to : i < j => FirstPos(seq[i], field) < FirstPos(seq[j], field)

\* The tokens of the keyword string a finished call returned, and the words
\* of the two normalised fields it was called on.
KwTokens == split(kwCall.out)
KwArtistField == split(clean_text(kwCall.artist))
KwTitleField == split(clean_text(kwCall.title))

\* C1, for the maxWords a token count can meet (0 and the positive
\* integers): the returned string has at most maxWords tokens.
C1_TokenCountAtMostMaxWords ==
    (kwCall.pc = "done" /\ kwCall.max_words.kind = "int" /\ kwCall.max_words.n >= 0)
        => Len(KwTokens) <= kwCall.max_words.n

\* What the code keeps instead: the limit is maxWords when that is a non-zero
\* integer and max_keywords when it is 0 or absent, and a negative limit
\* gives no token.
TokenCountAtMostEffectiveLimit ==
    kwCall.pc = "done" =>
        Len(KwTokens) <=
            (IF kwCall.max_words.kind = "int" /\ kwCall.max_words.n # 0
             THEN Max(0, kwCall.max_words.n)
             ELSE Max(0, kwCall.max_keywords))

\* C2: the returned tokens are pairwise distinct; they are at most two
\* artist tokens followed by title tokens, each part in the order of first
\* occurrence in its field.
C2_UniqueArtistFirstInOrder ==
    kwCall.pc = "done" =>
        /\ NoRepeat(KwTokens)
        /\ \E k \in 0..2 :
            /\ k <= Len(KwTokens)
            /\ InFieldOrder(KwTokens, 1, k, KwArtistField)
            /\ InFieldOrder(KwTokens, k + 1, Len(KwTokens), KwTitleField)

\* C2's case: two artist tokens, then the one title token that is not an
\* artist token too.
C2_Witness ==
    /\ kwCall.pc = "done"
    /\ Len(KwTokens) = 3
    /\ KwTokens[1] \in Range(KwTitleField)
    /\ KwTokens[2] \in Range(KwArtistField) \ Range(KwTitleField)
    /\ KwTokens[3] \in Range(KwTitleField) \ Range(KwArtistField)

\* C3: when the filtered artist words hold "various", "va" or "compilation"
\* at any position, the result is that of the empty artist with the same
\* title and maxWords.
C3_VariousFallsBackToTitle ==
    (/\ kwCall.pc = "done"
     /\ \E w \in Range(FilterWords(KwArtistField, stopwords)) : w \in VariousMarkers)
        => kwCall.out = generate_keywords(PyStr(<<>>), kwCall.title,
                                          kwCall.max_words, ConfigOf(kwCall))

\* C3's case: the marker is the second filtered artist word, after an
\* ordinary word, and the title gives keywords.
C3_Witness ==
    /\ kwCall.pc = "done"
    /\ LET filtered == FilterWords(KwArtistField, stopwords)
       IN /\ Len(filtered) >= 2
          /\ filtered[1] \notin VariousMarkers
          /\ filtered[2] \in VariousMarkers
    /\ kwCall.out # <<>>

\* C4: clean_text applied to its own result returns that result.
C4_CleanTextIdempotent ==
    cleanCall.pc = "done" => cleanCall.again = cleanCall.out

\* C4's case: an input with two opening brackets and then a closing bracket
\* of another kind (nested, unbalanced and mismatched), cleaned twice, of
\* which something is left.
C4_Witness ==
    /\ cleanCall.pc = "done"
    /\ cleanCall.text.kind = "str"
    /\ \E i \in DOMAIN cleanCall.text.s :
          /\ i + 2 \in DOMAIN cleanCall.text.s
          /\ cleanCall.text.s[i] = "("
          /\ cleanCall.text.s[i + 1] = "("
          /\ cleanCall.text.s[i + 2] = "]"
    /\ cleanCall.out # <<>>

\* C5: clean_text returns the empty string for None, NaN and "", and for
\* every input a string of lowercase that neither starts nor ends with
\* whitespace and holds no two whitespace characters in a row.
C5_CleanTextShape ==
    cleanCall.pc \in {"returned", "done"} =>
        LET out == cleanCall.out
        IN /\ (isna(cleanCall.text) \/ cleanCall.text = PyStr(<<>>)) => out = <<>>
           /\ \A i \in DOMAIN out : ~IsUpper(out[i])
           /\ out # <<>> => ~IsSpace(out[1]) /\ ~IsSpace(out[Len(out)])
           /\ \A i \in 1..(Len(out) - 1) : ~(IsSpace(out[i]) /\ IsSpace(out[i + 1]))

\* C5's case: a string that starts with whitespace and holds a capital and a
\* special character, of which two lowercase words are left.
C5_Witness ==
    /\ cleanCall.pc = "returned"
    /\ cleanCall.text.kind = "str"
    /\ Len(cleanCall.text.s) > 0 /\ IsSpace(cleanCall.text.s[1])
    /\ \E i \in DOMAIN cleanCall.text.s : IsUpper(cleanCall.text.s[i])
    /\ \E i \in DOMAIN cleanCall.text.s : cleanCall.text.s[i] = "!"
    /\ Len(split(cleanCall.out)) = 2

\* name is the first of the candidates, in their order, that is a column,
\* and None when no candidate is a column.
IsFirstCandidateIn(name, candidates, columns) ==
    IF Range(candidates) \cap Range(columns) = {}
    THEN name = NoName
    ELSE \E i \in DOMAIN candidates :
            /\ name = Name(candidates[i])
            /\ candidates[i] \in Range(columns)
            /\ \A j \in 1..(i - 1) : candidates[j] \notin Range(columns)

\* C6: detect_columns returns for each role, whatever the other role's result
\* and the order of the columns, the first name of the role's candidate list
\* that is a column (compared case-sensitively), and None when none is.
C6_FirstCandidatePerRole ==
    colCall.pc = "done" =>
        /\ IsFirstCandidateIn(colCall.artist_col, ArtistColumns, colCall.columns)
        /\ IsFirstCandidateIn(colCall.title_col, TitleColumns, colCall.columns)

\* C6's case: the table lists "artist" before "Artist" and has no title
\* candidate in the case the list names first; the detector returns "Artist"
\* and the lower title candidate.
C6_Witness ==
    /\ colCall.pc = "done"
    /\ \E i, j \in DOMAIN colCall.columns :
          i < j /\ colCall.columns[i] = "artist" /\ colCall.columns[j] = "Artist"
    /\ colCall.artist_col = Name("Artist")
    /\ colCall.title_col = Name("album")

\* The role has a candidate among the columns of the table.
HasCandidate(candidates) == Range(candidates) \cap Range(df.columns) # {}

\* The keywords of record r, made of the cells of the two named columns.
KeywordsFrom(r, artist_name, title_name) ==
    generate_keywords(df.rows[r][artist_name], df.rows[r][title_name], None, DefaultConfig)

C8_UnresolvedFailsBeforeAnyChange ==
    /\ call.pc = "raised" =>
        /\ df.Keywords = NoColumn
        /\ DOMAIN df.links = {}
        /\ df.Search_Link = NoColumn
    /\ (/\ call.pc \in {"keywords", "links", "done", "raised"}
        /\ \/ ~named(call.artist_arg) /\ ~HasCandidate(ArtistColumns)
           \/ ~named(call.title_arg) /\ ~HasCandidate(TitleColumns))
        => call.pc = "raised" /\ call.error = <<CouldNotFind, df.columns>>

\* C8's case: no title name given, a table with an artist candidate and
\* another column but no title candidate, and the call raised.
C8_Witness ==
    /\ call.pc = "raised"
    /\ call.title_arg = NoName
    /\ HasCandidate(ArtistColumns)
    /\ ~HasCandidate(TitleColumns)
    /\ Len(df.columns) >= 2
    /\ Len(df.rows) = 2
    /\ df.Keywords = NoColumn

\* Form-style escaping, character by character, of the characters the
\* keyword strings are written with.
FormEscaped(c) ==
    CASE c = " " -> <<"+">>
      [] c = "&" -> <<"%", "2", "6">>
      [] c = "+" -> <<"%", "2", "B">>
      [] OTHER -> <<c>>

RECURSIVE FormEscapedString(_)
FormEscapedString(s) ==
    IF s = <<>> THEN <<>> ELSE FormEscaped(s[1]) \o FormEscapedString(Tail(s))

\* url is template with the text query in the place of its one {query}
\* field and every literal text as it was.
IsSubstituted(url, template, query) ==
    \E k \in DOMAIN template :
        /\ template[k].field
        /\ Len(url) = Len(template) - 1 + Len(query)
        /\ \A i \in 1..(k - 1) : ~template[i].field /\ url[i] = template[i].text
        /\ \A j \in DOMAIN query : url[k - 1 + j] = query[j]
        /\ \A i \in (k + 1)..Len(template) :
              ~template[i].field /\ url[i - 1 + Len(query)] = template[i].text

\* C9: every link generate_search_links returns is the engine's template
\* with the form-escaped keywords (a space as "+", a reserved character as
\* its percent code) in the place of {query}, the rest unchanged.
C9_LinkIsTemplateWithEscapedKeywords ==
    linkCall.pc = "done" =>
        \A e \in DOMAIN linkCall.links :
            IsSubstituted(linkCall.links[e], TemplateOf(e, DefaultConfig),
                          FormEscapedString(linkCall.keywords))

\* C9's case: the keywords "abbey road" give "abbey+road" after the text of
\* the wikipedia template and before the "&type=release" of musicbrainz's.
C9_Witness ==
    /\ linkCall.pc = "done"
    /\ linkCall.keywords = AbbeyRoad
    /\ DOMAIN linkCall.links = {wikipedia, musicbrainz}
    /\ linkCall.links[wikipedia] =
        <<"https://en.wikipedia.org/wiki/Special:Search?search=",
          "a", "b", "b", "e", "y", "+", "r", "o", "a", "d">>
    /\ linkCall.links[musicbrainz] =
        <<"https://musicbrainz.org/search?query=",
          "a", "b", "b", "e", "y", "+", "r", "o", "a", "d", "&type=release">>

\* C10, of process_dataframe: when it is done, every requested engine of the
\* registry has its link column, which holds for every record the engine's
\* link for the record's keywords, whatever unknown ids the list holds and
\* where; and the logger was warned of every unknown id.
C10_UnknownEngineSkipped ==
    call.pc = "done" =>
        \A i \in DOMAIN call.search_engines :
            LET engine == call.search_engines[i]
            IN IF InRegistry(engine, DefaultConfig)
               THEN /\ LinkColumn(engine) \in DOMAIN df.links
                    /\ \A r \in DOMAIN df.rows :
                          df.links[LinkColumn(engine)][r] =
                              format(TemplateOf(engine, DefaultConfig),
                                     quote_plus(df.Keywords.values[r]))
               ELSE engine \in Range(warnings)

\* C10, of generate_search_links alone, which the code keeps: the keys of
\* the dict are the requested ids of the registry, and the logger is warned
\* of the others.
LinkKeysAreKnownRequested ==
    linkCall.pc = "done" =>
        LET requested == Range(RequestedEngines(linkCall.search_engines, DefaultConfig))
        IN /\ DOMAIN linkCall.links = {e \in requested : InRegistry(e, DefaultConfig)}
           /\ Range(warnings) = {e \in requested : ~InRegistry(e, DefaultConfig)}

\* The artist and title cells of the record at position r.
OwnCells(r) == <<df.rows[r][call.artist_col.name], df.rows[r][call.title_col.name]>>

\* The link an engine id gives for keywords, '' for an id not in the registry.
OwnLink(engine, kw) ==
    IF InRegistry(engine, DefaultConfig)
    THEN format(TemplateOf(engine, DefaultConfig), quote_plus(kw))
    ELSE <<>>

\* C11: when process_dataframe is done, the Keywords column, every link
\* column and Search_Link have one value per record, at the record's
\* position; the keywords at position r are generate_keywords of the
\* record's own artist and title, every link at position r is made of the
\* keywords at r alone, and two records with the same artist and title have
\* the same keywords and links wherever they stand in the table.
C11_RecordsIndependentInOrder ==
    call.pc = "done" =>
        /\ DOMAIN df.Keywords.values = DOMAIN df.rows
        /\ DOMAIN df.Search_Link.values = DOMAIN df.rows
        /\ \A r \in DOMAIN df.rows :
              df.Keywords.values[r] =
                  generate_keywords(OwnCells(r)[1], OwnCells(r)[2], None, DefaultConfig)
        /\ \A c \in DOMAIN df.links :
              /\ DOMAIN df.links[c] = DOMAIN df.rows
              /\ \E i \in DOMAIN call.search_engines :
                    /\ LinkColumn(call.search_engines[i]) = c
                    /\ \A r \in DOMAIN df.rows :
                          df.links[c][r] =
                              OwnLink(call.search_engines[i], df.Keywords.values[r])
        /\ \A r1, r2 \in DOMAIN df.rows :
              OwnCells(r1) = OwnCells(r2) =>
                  /\ df.Keywords.values[r1] = df.Keywords.values[r2]
                  /\ df.Search_Link.values[r1] = df.Search_Link.values[r2]
                  /\ \A c \in DOMAIN df.links : df.links[c][r1] = df.links[c][r2]

\* C11's case: a table of two different records, the compilation first,
\* done for two engines; each record has its own keywords at its position.
C11_Witness ==
    /\ call.pc = "done"
    /\ call.search_engines = <<musicbrainz, wikipedia>>
    /\ Len(df.rows) = 2
    /\ df.rows[1].Artist = PyStr(<<"V", "a", "r", "i", "o", "u", "s", " ", "A", "r", "t", "i", "s", "t", "s">>)
    /\ df.rows[2].Artist = PyStr(<<"Q", "u", "e", "e", "n">>)
    /\ df.Keywords.values[1] = <<"o", "k", " ", "c", "o", "m", "p", "u", "t", "e", "r">>
    /\ df.Keywords.values[2] =
          <<"q", "u", "e", "e", "n", " ", "n", "i", "g", "h", "t", " ", "o", "p", "e", "r", "a">>
    /\ DOMAIN df.links = {LinkColumn(musicbrainz), LinkColumn(wikipedia)}

\* The first engine of the requested list, the default engine when no list
\* (or an empty one) is given.
PrimaryEngine == RequestedEngines(call.engines_arg, DefaultConfig)[1]

\* C12: when process_dataframe is done, every record has a Search_Link that
\* is the record's link in the column of the first requested engine, and
\* the Search_Link of a record whose keywords are not empty is not empty.
C12_PrimaryLinkOfFirstEngine ==
    call.pc = "done" =>
        /\ df.Search_Link.present
        /\ DOMAIN df.Search_Link.values = DOMAIN df.rows
        /\ \A r \in DOMAIN df.rows :
              /\ df.Search_Link.values[r] = df.links[LinkColumn(PrimaryEngine)][r]
              /\ df.Keywords.values[r] # <<>> => df.Search_Link.values[r] # <<>>

\* C12, the part the code keeps: Search_Link is the column of the first
\* requested engine, and is not empty when that engine is in the registry
\* and no later requested id has the same column name.
PrimaryLinkIsFirstColumn ==
    call.pc = "done" =>
        /\ df.Search_Link = Column(df.links[LinkColumn(PrimaryEngine)])
        /\ (/\ InRegistry(PrimaryEngine, DefaultConfig)
            /\ \A i \in DOMAIN call.search_engines :
                  LinkColumn(call.search_engines[i]) = LinkColumn(PrimaryEngine)
                      => call.search_engines[i] = PrimaryEngine)
            => \A r \in DOMAIN df.rows : df.Search_Link.values[r] # <<>>

\* C13: generate_keywords called with a max_words of 0 or below returns
\* the empty string, whatever the artist and the title.
C13_NonPositiveMaxWordsGivesEmpty ==
    (kwCall.pc = "done" /\ kwCall.max_words.kind = "int" /\ kwCall.max_words.n <= 0)
        => kwCall.out = <<>>

\* C13, the part the code keeps: a negative max_words gives the empty string.
NegativeMaxWordsGivesEmpty ==
    (kwCall.pc = "done" /\ kwCall.max_words.kind = "int" /\ kwCall.max_words.n < 0)
        => kwCall.out = <<>>

\* The decimal digits of the sample numbers, and '' for 0.
DigitsOfSample(n) ==
    CASE n = 0 -> <<>>
      [] n = 7 -> <<"7">>
      [] n = 311 -> <<"3", "1", "1">>

\* The cells of the call that hold a number.
KwNumberCells == {v \in {kwCall.artist, kwCall.title} : v.kind = "int"}

\* C14 as stated: a number in the artist or the title cell is normalised
\* to the empty string and the keywords are those of a missing value.
C14_NonStringTreatedAsEmpty ==
    kwCall.pc = "done" =>
        /\ \A v \in KwNumberCells : clean_text(v) = <<>>
        /\ kwCall.artist.kind = "int" =>
              kwCall.out = generate_keywords(None, kwCall.title, kwCall.max_words,
                                             ConfigOf(kwCall))
        /\ kwCall.title.kind = "int" =>
              kwCall.out = generate_keywords(kwCall.artist, None, kwCall.max_words,
                                             ConfigOf(kwCall))

\* C14 as the code has it: only a missing value and a falsy one (the number
\* 0) are normalised to the empty string; another number is normalised to
\* its decimal digits, and 311 is a token of the keywords: the first one as
\* the artist unless the limit is negative, and one of them as the title
\* when the limit is the configured one.
C14_NumberNormalisedAsItsString ==
    kwCall.pc = "done" =>
        /\ \A v \in KwNumberCells : clean_text(v) = DigitsOfSample(v.n)
        /\ (kwCall.artist = PyInt(311) /\ kwCall.max_words # PyInt(-1)) =>
              /\ KwTokens # <<>>
              /\ KwTokens[1] = <<"3", "1", "1">>
        /\ (kwCall.title = PyInt(311) /\ kwCall.max_words = None) =>
              <<"3", "1", "1">> \in Range(KwTokens)
        /\ (kwCall.artist.kind = "int" /\ kwCall.artist.n \in {0, 7}) =>
              kwCall.out = generate_keywords(None, kwCall.title, kwCall.max_words,
                                             ConfigOf(kwCall))

\* C14's case: the artist is the number 311, the title is "moon", and the
\* keywords are "311 moon".
C14_Witness ==
    /\ kwCall.pc = "done"
    /\ kwCall.artist = PyInt(311)
    /\ kwCall.title = PyStr(<<"m", "o", "o", "n">>)
    /\ kwCall.max_words = None
    /\ kwCall.out = <<"3", "1", "1", " ", "m", "o", "o", "n">>

\* The number of records of the report, and ceil(n / size).
ReportRecords == Len(report.table.rows)
CeilDiv(n, size) == CHOOSE k \in 0..n : k * size >= n /\ (k = 0 \/ (k - 1) * size < n)

\* The cards of the written pages from the page with loop index page on,
\* in page order.
RECURSIVE WrittenCardsFrom(_)
WrittenCardsFrom(page) ==
    IF page >= report.total_pages THEN <<>>
    ELSE report.files[FileName(page, report.total_pages)].cards
            \o WrittenCardsFrom(page + 1)

\* One card for every record of the table, in the order of the table.
CardsOfRecords ==
    [r \in 1..ReportRecords |-> Card(report.table, r, Name("Artist"), Name("Title"))]

\* The written files are ceil(N / P) pages of at most P cards each, and the
\* cards of the pages, page after page, are the cards of the records.
PagesPartitionRecords ==
    /\ Cardinality(DOMAIN report.files) = CeilDiv(ReportRecords, report.items_per_page)
    /\ DOMAIN report.files =
          {FileName(page, report.total_pages) : page \in 0..(report.total_pages - 1)}
    /\ \A f \in DOMAIN report.files : Len(report.files[f].cards) <= report.items_per_page
    /\ WrittenCardsFrom(0) = CardsOfRecords

\* C15: generate_html_report completes, for every number of records and
\* every page size of 1 or more, and has then written ceil(N / P) pages of
\* at most P cards that hold one card per record, in the order of the
\* records; it never ends in an exception.
C15_ReportPagesPartitionRecords ==
    /\ report.pc # "raised"
    /\ report.pc = "done" => PagesPartitionRecords

\* C15, the part the code keeps: a report of one page at most (N <= P) is
\* completed with its pages as the claim says, and a report of more pages
\* ends in the NameError of line 407 before any file is written.
ReportOfOnePageAtMost ==
    /\ report.pc = "done" =>
          /\ ReportRecords <= report.items_per_page
          /\ PagesPartitionRecords
    /\ report.pc = "raised" =>
          /\ ReportRecords > report.items_per_page
          /\ report.error = NameError
          /\ DOMAIN report.files = {}

====
